---- MODULE Spec2Model ----
(***************************************************************************)
(* A model of generate_GV_properties.py: the command-line start-up checks, *)
(* main(), the inference loop and the masked aggregation of generate_gv(), *)
(* and the final print and save.                                           *)
(*                                                                         *)
(* Numbers: a tensor element is an integer; a scalar statistic is an exact *)
(* rational [nan, num, den] in lowest terms, or NaN.  std_gv is held as    *)
(* its square (the variance), so std_gv = 0 iff the variance is 0.         *)
(* Floating-point rounding is not modelled.                                *)
(***************************************************************************)
EXTENDS Integers, Sequences, FiniteSets, TLC

\* ------------------------------------------------------------------ bounds
MaxUtts == 2        \* utterances of the validation set, specification Spec
StatUtts == 2       \* utterances of the validation set, specification SpecStats
LoopUtts == 7       \* utterances of the validation set, specification SpecLoop
MaxTextLen == 2     \* longest token sequence
MaxMelLen == 2      \* longest sampled output, specification SpecStats
TinyMelLen == 1     \* longest sampled output, specifications Spec and SpecLoop
MaxVal == 1         \* sampled values are 0..MaxVal
MaxChannels == 2    \* mel channels are 1..MaxChannels
MaxWorkers == 2     \* num_workers of create_hparams() is 0..MaxWorkers

\* --------------------------------------------------------------- constants
BATCH_SIZE == 6
GV_PATH == "gv_parameters.pt"

VARIABLES
    args,              \* the parsed command line
    fs0,               \* the output files when the run started
    fs,                \* the output files now
    validation_files,  \* the token sequence of every validation utterance
    checkpoint,        \* the checkpoint file: what its model can sample
    pc,                \* where the script is
    err,               \* the exception that ended the run, or "none"
    hparams,
    val_loader,
    model,
    j, i,              \* batches fetched; utterances of the batch sampled
    batch,             \* parse_batch of the current batch
    mel_outputs,
    mel_outputs_len,
    calls,             \* every call of model.sample so far, with its result
    selected,          \* mel_outputs.masked_select(mask)
    mean_gv,
    std_gv,
    output,            \* the mapping of line 145
    printed

vars == <<args, fs0, fs, validation_files, checkpoint, pc, err, hparams,
          val_loader, model, j, i, batch, mel_outputs, mel_outputs_len,
          calls, selected, mean_gv, std_gv, output, printed>>

\* ----------------------------------------------------------------- values
NaN == [nan |-> TRUE, num |-> 0, den |-> 1]

Abs(x) == IF x < 0 THEN -x ELSE x

RECURSIVE Gcd(_, _)
Gcd(a, b) == IF b = 0 THEN a ELSE Gcd(b, a % b)

\* the rational n/d, d > 0, in lowest terms
Rat(n, d) ==
    LET g == Gcd(Abs(n), d)
    IN  [nan |-> FALSE, num |-> n \div g, den |-> d \div g]

Int2Float(v) == Rat(v, 1)

RECURSIVE Sum(_)
Sum(s) == IF s = <<>> THEN 0 ELSE Head(s) + Sum(Tail(s))

RECURSIVE SumSq(_)
SumSq(s) == IF s = <<>> THEN 0 ELSE Head(s) * Head(s) + SumSq(Tail(s))

RECURSIVE Concat(_)
Concat(ss) == IF ss = <<>> THEN <<>> ELSE Head(ss) \o Concat(Tail(ss))

RECURSIVE MaxOf(_)
MaxOf(s) ==
    IF s = <<>> THEN 0
    ELSE LET m == MaxOf(Tail(s)) IN IF Head(s) > m THEN Head(s) ELSE m

\* ------------------------------------------------------------ file system
Absent == [exists |-> FALSE, old |-> FALSE, data |-> [mean_gv |-> NaN, std_gv |-> NaN]]
OldFile == [exists |-> TRUE, old |-> TRUE, data |-> [mean_gv |-> NaN, std_gv |-> NaN]]
Saved(d) == [exists |-> TRUE, old |-> FALSE, data |-> d]

OutPaths == {GV_PATH, "other.pt"}
CkptPresent == "model.ckpt"
CkptPaths == {"", "missing.ckpt", CkptPresent}

\* os.path.exists
path_exists(p, files) ==
    IF p \in OutPaths THEN files[p].exists ELSE p = CkptPresent

\* ------------------------------------------------------------ data loader
\* TextMelCollate: the token sequences of one batch, right-padded with 0 to
\* the longest of the batch, and their true lengths
TextMelCollate(texts) ==
    LET lens == [k \in 1..Len(texts) |-> Len(texts[k])]
        m    == MaxOf(lens)
    IN  [text_padded   |-> [k \in 1..Len(texts) |->
                               [p \in 1..m |-> IF p <= Len(texts[k]) THEN texts[k][p] ELSE 0]],
         input_lengths |-> lens]

\* DataLoader(val_set, batch_size, collate_fn): consecutive chunks of
\* batch_size utterances, the last one shorter, each collated
RECURSIVE DataLoaderBatches(_, _)
DataLoaderBatches(files, bs) ==
    IF files = <<>> THEN <<>>
    ELSE IF Len(files) <= bs THEN <<TextMelCollate(files)>>
    ELSE <<TextMelCollate(SubSeq(files, 1, bs))>>
             \o DataLoaderBatches(SubSeq(files, bs + 1, Len(files)), bs)

get_val_dataloader(hp, files) ==
    [built       |-> TRUE,
     num_workers |-> hp.num_workers,
     batches     |-> DataLoaderBatches(files, hp.batch_size)]

NoLoader == [built |-> FALSE, num_workers |-> 0, batches |-> <<>>]

\* parse_batch: the fields generate_gv uses
parse_batch(b) ==
    [text_inputs  |-> b.text_padded,
     text_lengths |-> b.input_lengths,
     max_len      |-> MaxOf(b.input_lengths)]

NoBatch == [text_inputs |-> <<>>, text_lengths |-> <<>>, max_len |-> 0]

\* a faulty variant of SampleText: the padded row is passed whole
SampleTextPadded(b, k) == b.text_inputs[k]

\* the first argument of model.sample: text_inputs[i][: text_lengths[i]]
SampleText(b, k) == SubSeq(b.text_inputs[k], 1, b.text_lengths[k])

\* ------------------------------------------------------------------ model
NoModel == [loaded |-> FALSE, normaliser |-> "unset"]

\* TrainingModule.load_from_checkpoint: the model as trained
load_from_checkpoint(path) == [loaded |-> TRUE, normaliser |-> "Normaliser"]

\* a faulty variant of load_model: the normaliser is left on
load_model_keeping_normaliser(path) == load_from_checkpoint(path)

\* load_model: the loaded model with its normaliser turned off
load_model(path) == [load_from_checkpoint(path) EXCEPT !.normaliser = "None"]

\* ----------------------------------------------------------------- tensors
\* a sampled output of channel-constant frames, from its per-frame values
MelOf(vals, C) == [t \in 1..Len(vals) |-> [c \in 1..C |-> vals[t]]]

ValSeqs(maxLen, values) == UNION {[1..n -> values] : n \in 0..maxLen}

\* pad_sequence(batch_first=True): every sequence right-padded with zero
\* frames to the longest one
pad_sequence(seqs, C) ==
    LET m == MaxOf([k \in 1..Len(seqs) |-> Len(seqs[k])])
    IN  [k \in 1..Len(seqs) |->
            [t \in 1..m |-> IF t <= Len(seqs[k]) THEN seqs[k][t] ELSE [c \in 1..C |-> 0]]]

\* get_mask_from_len: mask[k][t] is true iff frame t of sequence k is valid
get_mask_from_len(lens) ==
    [k \in 1..Len(lens) |-> [t \in 1..MaxOf(lens) |-> t <= lens[k]]]

\* .unsqueeze(2).expand(-1, -1, C)
expand_channels(mask, C) ==
    [k \in 1..Len(mask) |-> [t \in 1..Len(mask[k]) |-> [c \in 1..C |-> mask[k][t]]]]

\* a faulty variant of masked_select: the mask is ignored
masked_select_all(x, mask) ==
    Concat([k \in 1..Len(x) |-> Concat([t \in 1..Len(x[k]) |-> x[k][t]])])

\* Tensor.masked_select: the elements whose mask is true, in row-major order
masked_select(x, mask) ==
    Concat([k \in 1..Len(x) |->
        Concat([t \in 1..Len(x[k]) |->
            Concat([c \in 1..Len(x[k][t]) |->
                IF mask[k][t][c] THEN <<x[k][t][c]>> ELSE <<>>])])])

\* torch.mean: NaN over an empty selection
torch_mean(s) == IF Len(s) = 0 THEN NaN ELSE Rat(Sum(s), Len(s))

\* torch.std (default: Bessel's correction), as its square: NaN over fewer
\* than two elements
torch_std(s) ==
    LET n == Len(s)
    IN  IF n <= 1 THEN NaN
        ELSE Rat(n * SumSq(s) - Sum(s) * Sum(s), n * (n - 1))

\* --------------------------------------------------------- start-up checks
\* line 138: args.checkpoint_path and not os.path.exists(args.checkpoint_path)
CheckpointRefused(a, files) ==
    a.checkpoint_path # "" /\ ~path_exists(a.checkpoint_path, files)

\* a faulty variant of OutputRefused: the force flag is ignored
OutputRefusedIgnoringForce(a, files) == path_exists(a.output_file, files)

\* line 141: os.path.exists(args.output_file) and not args.force
OutputRefused(a, files) == path_exists(a.output_file, files) /\ ~a.force

\* a faulty variant of SavePath: the output-file flag is honoured
SavePathFromFlag(a) == a.output_file

\* line 147: the path torch.save writes
SavePath(a) == GV_PATH

\* lines 49-50
HparamsOverride(hp) == [hp EXCEPT !.num_workers = 0, !.batch_size = BATCH_SIZE]

NoHparams == [num_workers |-> 0, batch_size |-> 0]

ERR_CKPT == "FileExistsError: Check point not present recheck the name"
ERR_OUT == "FileExistsError: File already exists. Use -f to force overwrite"
ERR_LOAD == "load_from_checkpoint: no such checkpoint"
ERR_PAD == "RuntimeError: received an empty list of sequences"

\* ------------------------------------------------------------------- Init
InitWith(argSet, fsSet, fileSets, ckptSet) ==
    /\ args \in argSet
    /\ fs0 \in fsSet
    /\ fs = fs0
    /\ validation_files \in fileSets
    /\ checkpoint \in ckptSet
    /\ pc = "parsed"
    /\ err = "none"
    /\ hparams = NoHparams
    /\ val_loader = NoLoader
    /\ model = NoModel
    /\ j = 0
    /\ i = 0
    /\ batch = NoBatch
    /\ mel_outputs = <<>>
    /\ mel_outputs_len = <<>>
    /\ calls = <<>>
    /\ selected = <<>>
    /\ mean_gv = NaN
    /\ std_gv = NaN
    /\ output = [mean_gv |-> NaN, std_gv |-> NaN]
    /\ printed = FALSE

\* utterance k: its token sequence, every token k, of a length set by shift
Text(k, shift) == [p \in 1..(1 + ((k + shift) % MaxTextLen)) |-> k]

Datasets(nmax, shifts) == {[k \in 1..n |-> Text(k, s)] : n \in 0..nmax, s \in shifts}

Checkpoints(channels, maxLen, values) ==
    {[n_mel_channels |-> C, max_frames |-> maxLen, values |-> values] : C \in channels}

\* the per-frame values of the outputs the model of a checkpoint can sample
Support(ckpt) == ValSeqs(ckpt.max_frames, ckpt.values)

ArgsAll == [checkpoint_path : CkptPaths, force : BOOLEAN, output_file : OutPaths]
ArgsDefault == [checkpoint_path : CkptPaths, force : {FALSE}, output_file : {GV_PATH}]
FsAll == [OutPaths -> {Absent, OldFile}]
FsDefault == {f \in FsAll : ~f["other.pt"].exists}

Init ==
    InitWith(ArgsAll, FsAll, Datasets(MaxUtts, {0}),
             Checkpoints(1..MaxChannels, TinyMelLen, 0..MaxVal))

InitLoop ==
    InitWith(ArgsDefault, FsDefault, Datasets(LoopUtts, 0..(MaxTextLen - 1)),
             Checkpoints({1}, TinyMelLen, {1}))

InitStats ==
    InitWith(ArgsDefault, FsDefault, Datasets(StatUtts, {0}),
             Checkpoints({MaxChannels}, MaxMelLen, 0..MaxVal))

\* ---------------------------------------------------------------- actions
Raise(e) ==
    /\ pc' = "raised"
    /\ err' = e
    /\ UNCHANGED <<args, fs0, fs, validation_files, checkpoint, hparams,
                   val_loader, model, j, i, batch, mel_outputs,
                   mel_outputs_len, calls, selected, mean_gv, std_gv,
                   output, printed>>

\* lines 138-139
RaiseCheckpointNotPresent ==
    /\ pc = "parsed"
    /\ CheckpointRefused(args, fs)
    /\ Raise(ERR_CKPT)

\* lines 141-142
RaiseFileAlreadyExists ==
    /\ pc = "parsed"
    /\ ~CheckpointRefused(args, fs)
    /\ OutputRefused(args, fs)
    /\ Raise(ERR_OUT)

\* line 144: main(args) is entered
EnterMain ==
    /\ pc = "parsed"
    /\ ~CheckpointRefused(args, fs)
    /\ ~OutputRefused(args, fs)
    /\ pc' = "main"
    /\ UNCHANGED <<args, fs0, fs, validation_files, checkpoint, err, hparams,
                   val_loader, model, j, i, batch, mel_outputs,
                   mel_outputs_len, calls, selected, mean_gv, std_gv,
                   output, printed>>

\* lines 48-50: create_hparams() returns some defaults, two are overridden
CreateHparams ==
    /\ pc = "main"
    /\ \E w \in 0..MaxWorkers, b \in 1..BATCH_SIZE :
          hparams' = HparamsOverride([num_workers |-> w, batch_size |-> b])
    /\ pc' = "hparams"
    /\ UNCHANGED <<args, fs0, fs, validation_files, checkpoint, err,
                   val_loader, model, j, i, batch, mel_outputs,
                   mel_outputs_len, calls, selected, mean_gv, std_gv,
                   output, printed>>

\* line 51
BuildValLoader ==
    /\ pc = "hparams"
    /\ val_loader' = get_val_dataloader(hparams, validation_files)
    /\ pc' = "loader"
    /\ UNCHANGED <<args, fs0, fs, validation_files, checkpoint, err, hparams,
                   model, j, i, batch, mel_outputs, mel_outputs_len, calls,
                   selected, mean_gv, std_gv, output, printed>>

\* line 53, load_model
LoadModel ==
    /\ pc = "loader"
    /\ path_exists(args.checkpoint_path, fs)
    /\ model' = load_model(args.checkpoint_path)
    /\ pc' = "generate_gv"
    /\ UNCHANGED <<args, fs0, fs, validation_files, checkpoint, err, hparams,
                   val_loader, j, i, batch, mel_outputs, mel_outputs_len,
                   calls, selected, mean_gv, std_gv, output, printed>>

\* line 93 on a path that is no file
LoadModelFails ==
    /\ pc = "loader"
    /\ ~path_exists(args.checkpoint_path, fs)
    /\ Raise(ERR_LOAD)

\* lines 69-70
StartGenerateGv ==
    /\ pc = "generate_gv"
    /\ mel_outputs' = <<>>
    /\ mel_outputs_len' = <<>>
    /\ pc' = "loop"
    /\ UNCHANGED <<args, fs0, fs, validation_files, checkpoint, err, hparams,
                   val_loader, model, j, i, batch, calls, selected, mean_gv,
                   std_gv, output, printed>>

\* lines 71-73: the next batch of the loader, parsed
FetchBatch ==
    /\ pc = "loop"
    /\ i = Len(batch.text_inputs)
    /\ j < Len(val_loader.batches)
    /\ j' = j + 1
    /\ batch' = parse_batch(val_loader.batches[j + 1])
    /\ i' = 0
    /\ UNCHANGED <<args, fs0, fs, validation_files, checkpoint, pc, err,
                   hparams, val_loader, model, mel_outputs, mel_outputs_len,
                   calls, selected, mean_gv, std_gv, output, printed>>

\* lines 75-78: one iteration of the inner loop
SampleUtterance ==
    /\ pc = "loop"
    /\ i < Len(batch.text_inputs)
    /\ \E vals \in Support(checkpoint) :
          LET mel_output == MelOf(vals, checkpoint.n_mel_channels)
          IN  /\ calls' = Append(calls,
                               [text        |-> SampleText(batch, i + 1),
                                text_length |-> batch.text_lengths[i + 1],
                                normaliser  |-> model.normaliser,
                                mel_output  |-> mel_output])
              /\ mel_outputs' = Append(mel_outputs, mel_output)
              /\ mel_outputs_len' = Append(mel_outputs_len, Len(mel_output))
    /\ i' = i + 1
    /\ UNCHANGED <<args, fs0, fs, validation_files, checkpoint, pc, err,
                   hparams, val_loader, model, j, batch, selected, mean_gv,
                   std_gv, output, printed>>

LoopDone ==
    /\ pc = "loop"
    /\ i = Len(batch.text_inputs)
    /\ j = Len(val_loader.batches)

\* line 80 on an empty list: pad_sequence raises
AggregateRaises ==
    /\ LoopDone
    /\ mel_outputs = <<>>
    /\ Raise(ERR_PAD)

\* lines 80-89 and the return of main
Aggregate ==
    /\ LoopDone
    /\ mel_outputs # <<>>
    /\ LET C      == checkpoint.n_mel_channels
           padded == pad_sequence(mel_outputs, C)
           mask   == expand_channels(get_mask_from_len(mel_outputs_len), C)
           sel    == masked_select(padded, mask)
       IN  /\ selected' = sel
           /\ mean_gv' = torch_mean(sel)
           /\ std_gv' = torch_std(sel)
    /\ pc' = "returned"
    /\ UNCHANGED <<args, fs0, fs, validation_files, checkpoint, err, hparams,
                   val_loader, model, j, i, batch, mel_outputs,
                   mel_outputs_len, calls, output, printed>>

\* lines 145-146 (.item() of a scalar tensor keeps its value, NaN included)
PrintOutput ==
    /\ pc = "returned"
    /\ output' = [mean_gv |-> mean_gv, std_gv |-> std_gv]
    /\ printed' = TRUE
    /\ pc' = "printed"
    /\ UNCHANGED <<args, fs0, fs, validation_files, checkpoint, err, hparams,
                   val_loader, model, j, i, batch, mel_outputs,
                   mel_outputs_len, calls, selected, mean_gv, std_gv>>

\* line 147
SaveOutput ==
    /\ pc = "printed"
    /\ fs' = [fs EXCEPT ![SavePath(args)] = Saved(output)]
    /\ pc' = "done"
    /\ UNCHANGED <<args, fs0, validation_files, checkpoint, err, hparams,
                   val_loader, model, j, i, batch, mel_outputs,
                   mel_outputs_len, calls, selected, mean_gv, std_gv, output,
                   printed>>

Next ==
    \/ RaiseCheckpointNotPresent
    \/ RaiseFileAlreadyExists
    \/ EnterMain
    \/ CreateHparams
    \/ BuildValLoader
    \/ LoadModel
    \/ LoadModelFails
    \/ StartGenerateGv
    \/ FetchBatch
    \/ SampleUtterance
    \/ AggregateRaises
    \/ Aggregate
    \/ PrintOutput
    \/ SaveOutput

Spec == Init /\ [][Next]_vars
SpecLoop == InitLoop /\ [][Next]_vars
SpecStats == InitStats /\ [][Next]_vars

\* ----------------------------------------------------------------- claims
Returned == {"returned", "printed", "done"}

\* the values the sampling calls returned, call by call, frame by frame
RawValues ==
    Concat([k \in 1..Len(calls) |->
        Concat([t \in 1..Len(calls[k].mel_output) |-> calls[k].mel_output[t]])])

ThisRun == [mean_gv |-> mean_gv, std_gv |-> std_gv]

\* C1: with a checkpoint path that does not exist the run ends in the
\* file-existence error of the start-up check: main() is never entered, no
\* model is loaded, no sampling call is made and no file is written.
C1_MissingCheckpointRaisesAtStartup ==
    ~path_exists(args.checkpoint_path, fs0) =>
        /\ pc \in {"parsed", "raised"}
        /\ (pc = "raised" => err = ERR_CKPT)
        /\ ~model.loaded
        /\ calls = <<>>
        /\ fs = fs0

\* C2: without the force flag, whatever the output-file flag, every file the
\* run has written did not exist when the run started.
C2_NoOverwriteWithoutForce ==
    ~args.force => \A p \in OutPaths : fs[p] # fs0[p] => ~fs0[p].exists

\* C3: the selection of the mask is exactly the values the sampling calls
\* returned (C values for each of the mel_outputs_len[k] frames of output k,
\* none of the padding), and mean_gv and std_gv are the mean and the standard
\* deviation of those values alone, so they do not depend on the padding.
C3_PaddingNeverInfluences ==
    pc \in Returned =>
        LET raw == RawValues
            n   == Len(raw)
            sum == Sum(raw)
            sq  == SumSq(raw)
        IN  /\ selected = raw
            /\ n = checkpoint.n_mel_channels * Sum(mel_outputs_len)
            /\ mean_gv.nan = (n = 0)
            /\ (n > 0 => mean_gv.num * n = mean_gv.den * sum)
            /\ std_gv.nan = (n <= 1)
            /\ (n > 1 => std_gv.num * n * (n - 1) = std_gv.den * (n * sq - sum * sum))

\* C3 witness: a finished run whose outputs have different lengths (so one was
\* padded) and hold a value other than the padding value
C3_Witness ==
    /\ pc = "done"
    /\ \E a, b \in 1..Len(mel_outputs_len) : mel_outputs_len[a] < mel_outputs_len[b]
    /\ Sum(RawValues) > 0
    /\ Len(RawValues) > 1

\* C4: when the selection of valid elements is empty the run fails with an
\* error: it never returns, prints or writes a NaN mean_gv or std_gv.
C4_EmptySelectionFailsLoudly ==
    (pc \in Returned /\ Sum(mel_outputs_len) = 0) =>
        /\ ~mean_gv.nan
        /\ ~std_gv.nan
        /\ ~printed
        /\ fs = fs0

\* the utterances in loader order: batch by batch, then row by row, each with
\* its true length and its tokens up to that length
LoaderUtterances ==
    Concat([b \in 1..Len(val_loader.batches) |->
        [x \in 1..Len(val_loader.batches[b].text_padded) |->
            [text_length |-> val_loader.batches[b].input_lengths[x],
             text        |-> [p \in 1..val_loader.batches[b].input_lengths[x] |->
                                val_loader.batches[b].text_padded[x][p]]]]])

\* C5: the k-th sampling call is made with the k-th utterance in loader order,
\* its token sequence cut to its true length; the accumulators hold, in call
\* order and unchanged, the output and the output length of every call made so
\* far; the calls made are those of the batches fetched; after the loop there
\* is exactly one call per utterance of the validation set.
C5_OneCallPerUtteranceInOrder ==
    LET utts == LoaderUtterances
    IN  /\ Len(mel_outputs) = Len(calls)
        /\ Len(mel_outputs_len) = Len(calls)
        /\ Len(calls) <= Len(utts)
        /\ \A k \in 1..Len(calls) :
              /\ calls[k].text = utts[k].text
              /\ calls[k].text_length = utts[k].text_length
              /\ mel_outputs[k] = calls[k].mel_output
              /\ mel_outputs_len[k] = Len(calls[k].mel_output)
        /\ (pc = "loop" /\ j > 0 => Len(calls) = (j - 1) * BATCH_SIZE + i)
        /\ (pc = "loop" /\ j = 0 => calls = <<>>)
        /\ (pc \in Returned \/ err = ERR_PAD =>
              Len(calls) = Len(utts) /\ Len(calls) = Len(validation_files))

\* C5 witness: a finished run over more than one batch, with a padded token
\* sequence in it
C5_Witness ==
    /\ pc = "done"
    /\ Len(calls) > BATCH_SIZE
    /\ \E a, b \in 1..BATCH_SIZE : calls[a].text_length < calls[b].text_length

\* C6: a validation set of a single utterance whose sampled output is a single
\* value gives mean_gv equal to that value and std_gv equal to zero.
C6_SingleValueStatistics ==
    (pc \in Returned /\ Len(validation_files) = 1 /\ Len(RawValues) = 1) =>
        /\ mean_gv = Int2Float(RawValues[1])
        /\ std_gv = Int2Float(0)

\* C7: when every sampled value equals the same constant v, mean_gv = v and
\* std_gv = 0, whatever the padding.
C7_ConstantOutputs ==
    (pc \in Returned /\ Len(RawValues) > 0) =>
        \A v \in 0..MaxVal :
            (\A x \in 1..Len(RawValues) : RawValues[x] = v) =>
                /\ mean_gv = Int2Float(v)
                /\ std_gv = Int2Float(0)

\* the run can take a step: in the loop, the loop is over (and the aggregation
\* follows) or its next iteration or batch can be taken
Progresses ==
    IF pc = "loop"
    THEN LoopDone \/ ENABLED (SampleUtterance \/ FetchBatch)
    ELSE ENABLED Next

\* the case of C8: the force flag, a checkpoint that exists and an existing
\* statistics file
C8_Case ==
    /\ args.force
    /\ path_exists(args.checkpoint_path, fs0)
    /\ fs0[GV_PATH].exists

\* C8 as stated: in that case the run never raises; it overwrites the
\* statistics file with the two fields of this run, and only after inference
\* over the whole validation set.
C8_ForceOverwritesAfterInference ==
    C8_Case =>
        /\ pc # "raised"
        /\ (pc \notin {"done", "raised"} => Progresses)
        /\ (pc = "done" => fs = [fs0 EXCEPT ![GV_PATH] = Saved(ThisRun)])
        /\ (fs # fs0 => pc = "done" /\ Len(calls) = Len(validation_files))

\* C8 amended: in that case the run does not raise at start-up and goes on to
\* the end of the inference loop; it raises only in the aggregation of an
\* empty validation set, writing nothing; otherwise it overwrites
\* gv_parameters.pt with exactly mean_gv and std_gv of this run, and no file
\* changes before inference over the whole validation set has finished.
C8_ForceOverwritesUnlessEmpty ==
    C8_Case =>
        /\ (pc = "raised" => err = ERR_PAD /\ validation_files = <<>> /\ fs = fs0)
        /\ (pc \notin {"done", "raised"} => Progresses)
        /\ (pc = "done" =>
              /\ fs = [fs0 EXCEPT ![GV_PATH] = Saved(ThisRun)]
              /\ DOMAIN fs[GV_PATH].data = {"mean_gv", "std_gv"}
              /\ validation_files # <<>>)
        /\ (fs # fs0 => pc = "done" /\ Len(calls) = Len(validation_files))

\* C8 witness: a forced run over two utterances has overwritten the file the
\* output-file flag names
C8_Witness ==
    /\ C8_Case
    /\ args.output_file = GV_PATH
    /\ pc = "done"
    /\ Len(calls) > 1
    /\ fs[GV_PATH] # fs0[GV_PATH]

\* C9: a run that succeeds has written its statistics to gv_parameters.pt, and
\* every other file, the one the output-file flag names included, is as it was
\* when the run started.
C9_FixedSavePath ==
    /\ \A p \in OutPaths \ {GV_PATH} : fs[p] = fs0[p]
    /\ (pc = "done" => fs[GV_PATH] = Saved(output) /\ output = ThisRun)

\* C9 witness: a run that succeeded with the output-file flag naming another,
\* existing file
C9_Witness ==
    /\ pc = "done"
    /\ args.output_file = "other.pt"
    /\ fs0["other.pt"].exists
    /\ ~fs0[GV_PATH].exists

\* C10: every sampling call is made on a model whose normaliser is None, a
\* loaded model has its normaliser None, and the data loader is built, with
\* num_workers = 0, before the model is loaded.
C10_NormaliserOffSingleWorker ==
    /\ \A k \in 1..Len(calls) : calls[k].normaliser = "None"
    /\ (model.loaded => model.normaliser = "None" /\ val_loader.built)
    /\ (val_loader.built => val_loader.num_workers = 0)

\* C10 witness: a finished run that made sampling calls in two batches
C10_Witness ==
    /\ pc = "done"
    /\ j > 1
    /\ Len(calls) > BATCH_SIZE
    /\ model.loaded

====
